---------------------------- MODULE Spec2Model ----------------------------
(***************************************************************************)
(* Optimistic voting of the map view (InteractiveMap.tsx): the vote map,   *)
(* the nearby-issues list, the selected-issue panel and the detail modal,  *)
(* the vote requests in flight and the remote vote authority.              *)
(***************************************************************************)
EXTENDS Integers, Sequences, FiniteSets, TLC

VARIABLES
    isGuest,            \* AuthContext: isGuest
    loadPc,             \* position of loadData: "locating", "fetching", "done"
    issues,             \* issues state: issueId -> upvotes as loaded
    center,             \* map centre (position on a line, km)
    nearbyIssues,       \* nearbyIssues state: issueId -> upvotes
    userVotes,          \* userVotes state: issueId -> "undefined" | "null" | "up" | "down"
    selectedIssue,      \* <<>> (null) or <<[issueId, upvotes]>>
    detailModalIssue,   \* <<>> (null) or <<[issueId, upvotes]>>
    requests,           \* vote requests in flight, in dispatch order
    authOthers,         \* authority: upvotes of the other users, per issue
    authVote,           \* authority: this user's recorded vote, per issue
    dispatched,         \* number of vote requests issued so far
    obs,                \* <<>> or <<the observer's record of one issue>>
    lastOp,             \* the operation that produced this state
    mounted,            \* the map view is mounted
    staleWrites,        \* response handlers that ran their setters after the unmount
    toast,              \* use-toast: the notification on screen, "" when none
    photos,             \* UploadIssue: photos state (the files attached)
    uploadedImageUrls,  \* UploadIssue: uploadedImageUrls state
    uploadingImages,    \* UploadIssue: uploadingImages state
    uploads,            \* UploadIssue: <<>> or <<the files of the upload in progress>>
    user,               \* AuthContext: user, <<>> (null) or <<the profile>>
    currentUser,        \* Firebase: auth.currentUser is set
    guestFlag,          \* localStorage: 'meri-awaaz-guest' is 'true'
    authOps,            \* AuthContext: the asynchronous steps that are pending
    authStarted         \* number of asynchronous auth operations started so far

vars == <<isGuest, loadPc, issues, center, nearbyIssues, userVotes,
          selectedIssue, detailModalIssue, requests, authOthers, authVote,
          dispatched, obs, lastOp, mounted, staleWrites, toast, photos,
          uploadedImageUrls, uploadingImages, uploads, user, currentUser,
          guestFlag, authOps, authStarted>>

\* the state of the auth provider besides isGuest
authVars == <<user, currentUser, guestFlag, authOps, authStarted>>

\* the state of the issue-report form and the notification on screen
formVars == <<photos, uploadedImageUrls, uploadingImages, uploads, toast>>

\* the life of the map view
lifeVars == <<mounted, staleWrites>>

\* the state of the map view, its requests and the authority
mapVars == <<isGuest, loadPc, issues, center, nearbyIssues, userVotes,
             selectedIssue, detailModalIssue, requests, authOthers, authVote,
             dispatched, obs>>

-----------------------------------------------------------------------------
(* Bounds *)

MaxOthers == 1          \* other users' upvotes on one issue: 0..MaxOthers
MaxVotes == 2           \* vote requests issued in one run

(* The issues of the backend and where they are, the places the user can be *)
Subjects == {"s1", "s2"}
Pos == [s \in Subjects |-> IF s = "s1" THEN 0 ELSE 4]
Locations == {0, 8}
DefaultCenter == 0
NearbyRadius == 5

VoteTypes == {"up", "down"}

MaxAuthOps == 3         \* asynchronous auth operations started in one run

(* The issue-report form: the files the user can pick *)
MaxPick == 2            \* files chosen in one selection: 0..MaxPick
MaxPhotos == 5
Files == {"a", "b"}
Picks == UNION {[1..n -> Files] : n \in 0..MaxPick}

Null == << >>
Some(x) == <<x>>
NoIssues == [s \in {} |-> 0]

-----------------------------------------------------------------------------
(* The authority (backend): one vote per user and issue, toggled *)

AuthUpvotes(s) == authOthers[s] + (IF authVote[s] = "up" THEN 1 ELSE 0)

AuthorityToggle(cur, voteType) == IF cur = voteType THEN "null" ELSE voteType

-----------------------------------------------------------------------------
(* InteractiveMap *)

calculateDistance(a, b) == IF a >= b THEN a - b ELSE b - a

NearbyOf(iss, c) ==
    [s \in {x \in DOMAIN iss : calculateDistance(c, Pos[x]) <= NearbyRadius} |-> iss[s]]

\* the [issues, center] effect, run after a render that changed either
NearbyEffect(iss, c) ==
    IF DOMAIN iss # {} THEN NearbyOf(iss, c) ELSE nearbyIssues

\* setNearbyIssues(prev => prev.map(issue => issue.issueId === id ? {...issue, upvotes: n} : issue))
MapUpvotes(list, id, n) ==
    [s \in DOMAIN list |-> IF s = id THEN n ELSE list[s]]

\* setSelectedIssue(prev => prev ? {...prev, upvotes: n} : null)
PatchSelected(sel, n) ==
    IF sel # Null THEN Some([sel[1] EXCEPT !.upvotes = n]) ELSE Null

\* selectedIssue && selectedIssue.issueId === issueId
SelectedIs(id) == selectedIssue # Null /\ selectedIssue[1].issueId = id

\* clicking the vote already held leaves it in place
optimisticVoteKeepsVote(currentVote, voteType) == voteType

\* a vote opposite to the one held is added to it
optimisticVoteAddsVote(currentVote, voteType) ==
    IF currentVote = voteType THEN "null"
    ELSE IF currentVote \in VoteTypes THEN "up+down"
    ELSE voteType

optimisticVote(currentVote, voteType) ==
    IF currentVote = voteType THEN "null" ELSE voteType

\* going from up to down leaves the upvote in the tally
optimisticDeltaNoSwitch(currentVote, voteType) ==
    IF currentVote = voteType
    THEN (IF voteType = "up" THEN -1 ELSE 0)
    ELSE IF currentVote = "down" /\ voteType = "up" THEN 1
    ELSE IF currentVote = "null" /\ voteType = "up" THEN 1
    ELSE 0

optimisticDelta(currentVote, voteType) ==
    IF currentVote = voteType
    THEN (IF voteType = "up" THEN -1 ELSE 0)
    ELSE IF currentVote = "up" /\ voteType = "down" THEN -1
    ELSE IF currentVote = "down" /\ voteType = "up" THEN 1
    ELSE IF currentVote = "null" /\ voteType = "up" THEN 1
    ELSE 0

\* the requests in flight that are about issue id
InFlight(id) == {i \in 1..Len(requests) : requests[i].issueId = id}

\* JavaScript's undefined and null both mean that the user holds no vote
Direction(v) == IF v = "undefined" THEN "null" ELSE v

-----------------------------------------------------------------------------
(* The observer: once started on an issue it keeps the (vote, tally) the     *)
(* issue had then and the list of what happened to the issue since.          *)

Note(id, e) ==
    IF obs # Null /\ obs[1].issueId = id
    THEN Some([obs[1] EXCEPT !.events = Append(@, e)])
    ELSE obs

\* a vote on the issue was accepted: shown is what the issue shows after it
NoteVote(id, e, shown) ==
    IF obs # Null /\ obs[1].issueId = id
    THEN Some([obs[1] EXCEPT !.events = Append(@, e), !.opts = Append(@, shown)])
    ELSE obs

\* the answer of request r was processed: the observer keeps the answer of
\* the request that was issued last among those answered
NoteAnswer(r) ==
    IF obs # Null /\ obs[1].issueId = r.issueId
    THEN Some([obs[1] EXCEPT
                 !.events = Append(@, "ok"),
                 !.canon = IF @ = Null \/ r.seq > @[1].seq
                           THEN Some([seq |-> r.seq,
                                      upvotes |-> r.resp[1].upvotes,
                                      vote |-> r.resp[1].userVote])
                           ELSE @])
    ELSE obs

NoteRecentred ==
    IF obs # Null THEN Some([obs[1] EXCEPT !.recentred = TRUE]) ELSE obs

\* the pages after construction, with a backend that holds the issues ids
InitView(ids) ==
    /\ isGuest \in BOOLEAN
    /\ loadPc = "locating"
    /\ issues = NoIssues
    /\ center = DefaultCenter
    /\ nearbyIssues = NoIssues
    /\ userVotes = [s \in Subjects |-> "undefined"]
    /\ selectedIssue = Null
    /\ detailModalIssue = Null
    /\ requests = << >>
    /\ authOthers \in [ids -> 0..MaxOthers]
    /\ authVote \in [ids -> {"null", "up", "down"}]
    /\ dispatched = 0
    /\ obs = Null
    /\ lastOp = "init"
    /\ mounted = TRUE
    /\ staleWrites = 0
    /\ toast = ""
    /\ photos = << >>
    /\ uploadedImageUrls = << >>
    /\ uploadingImages = FALSE
    /\ uploads = Null

\* the state after construction, the auth provider at rest
InitWith(ids) ==
    /\ InitView(ids)
    /\ user = Null
    /\ currentUser = FALSE
    /\ guestFlag = FALSE
    /\ authOps = << >>
    /\ authStarted = 0

Init == InitWith({"s1"})

\* loadData, up to setCenter(location)
loadLocation(loc) ==
    /\ loadPc = "locating"
    /\ loadPc' = "fetching"
    /\ center' = loc
    /\ nearbyIssues' = NearbyEffect(issues, loc)
    /\ lastOp' = "loadLocation"
    /\ UNCHANGED <<authVars, formVars, lifeVars, isGuest, issues, userVotes, selectedIssue, detailModalIssue,
                   requests, authOthers, authVote, dispatched, obs>>

\* loadData, from the isGuest test to the end
loadIssues(ok) ==
    /\ loadPc = "fetching"
    /\ loadPc' = "done"
    /\ IF isGuest
       THEN /\ issues' = NoIssues
            /\ center' = center
       ELSE IF ok
       THEN /\ issues' = [s \in DOMAIN authOthers |-> AuthUpvotes(s)]
            /\ center' = center
       ELSE /\ issues' = issues
            /\ center' = DefaultCenter
    /\ nearbyIssues' = NearbyEffect(issues', center')
    /\ lastOp' = "loadIssues"
    /\ UNCHANGED <<authVars, formVars, lifeVars, isGuest, userVotes, selectedIssue, detailModalIssue,
                   requests, authOthers, authVote, dispatched, obs>>

\* handleVote returns early: nothing is written, no request is issued
voteIgnored(why) ==
    /\ lastOp' = why
    /\ UNCHANGED <<authVars, formVars, lifeVars, isGuest, loadPc, issues, center, nearbyIssues, userVotes,
                   selectedIssue, detailModalIssue, requests, authOthers, authVote,
                   dispatched, obs>>

\* handleVote from the toggle logic to the call of the vote endpoint
applyVote(issueId, voteType) ==
    LET currentVote == userVotes[issueId]
        currentUpvotes == nearbyIssues[issueId]
        optimisticUpvotes == currentUpvotes + optimisticDelta(currentVote, voteType)
    IN  /\ dispatched < MaxVotes
        /\ userVotes' = [userVotes EXCEPT ![issueId] = optimisticVote(currentVote, voteType)]
        /\ nearbyIssues' = MapUpvotes(nearbyIssues, issueId, optimisticUpvotes)
        /\ selectedIssue' = IF SelectedIs(issueId)
                            THEN PatchSelected(selectedIssue, optimisticUpvotes)
                            ELSE selectedIssue
        /\ requests' = Append(requests,
                              [issueId |-> issueId, voteType |-> voteType,
                               currentVote |-> currentVote,
                               upvotes |-> currentUpvotes,
                               sel |-> SelectedIs(issueId),
                               seq |-> dispatched + 1,
                               resp |-> Null])
        /\ dispatched' = dispatched + 1
        /\ obs' = NoteVote(issueId, voteType,
                           [upvotes |-> optimisticUpvotes,
                            vote |-> optimisticVote(currentVote, voteType)])
        /\ lastOp' = "handleVote:sent"
        /\ UNCHANGED <<authVars, formVars, lifeVars, isGuest, loadPc, issues, center, detailModalIssue,
                       authOthers, authVote>>

\* a guest's vote goes through
handleVoteNoGuestCheck(issueId, voteType) ==
    /\ mounted
    /\ IF issueId \notin DOMAIN nearbyIssues
       THEN voteIgnored("handleVote:unloaded")
       ELSE applyVote(issueId, voteType)

\* one lock for the whole list: no vote while any request is in flight
handleVoteGlobalLock(issueId, voteType) ==
    /\ mounted
    /\ IF isGuest
       THEN voteIgnored("handleVote:guest")
       ELSE IF issueId \notin DOMAIN nearbyIssues
       THEN voteIgnored("handleVote:unloaded")
       ELSE IF requests # << >>
       THEN voteIgnored("handleVote:busy")
       ELSE applyVote(issueId, voteType)

\* an issue that is not in the list is voted on as an issue of tally 0
handleVoteNoLoadedCheck(issueId, voteType) ==
    /\ mounted
    /\ IF isGuest
       THEN voteIgnored("handleVote:guest")
       ELSE IF issueId \notin DOMAIN nearbyIssues
       THEN /\ dispatched < MaxVotes
            /\ userVotes' = [userVotes EXCEPT
                                ![issueId] = optimisticVote(userVotes[issueId], voteType)]
            /\ requests' = Append(requests,
                                  [issueId |-> issueId, voteType |-> voteType,
                                   currentVote |-> userVotes[issueId],
                                   upvotes |-> 0,
                                   sel |-> SelectedIs(issueId),
                                   seq |-> dispatched + 1,
                                   resp |-> Null])
            /\ dispatched' = dispatched + 1
            /\ lastOp' = "handleVote:unloaded"
            /\ UNCHANGED <<authVars, formVars, lifeVars, isGuest, loadPc, issues, center,
                           nearbyIssues, selectedIssue, detailModalIssue,
                           authOthers, authVote, obs>>
       ELSE applyVote(issueId, voteType)

\* the vote buttons of a card of the list and of the detail modal
handleVote(issueId, voteType) ==
    /\ mounted
    /\ IF isGuest
       THEN voteIgnored("handleVote:guest")
       ELSE IF issueId \notin DOMAIN nearbyIssues
       THEN voteIgnored("handleVote:unloaded")
       ELSE applyVote(issueId, voteType)

\* the authority handles request i: the vote is toggled and the answer computed;
\* others is the number of upvotes the other users hold by then
authorityHandle(i, others) ==
    /\ i \in 1..Len(requests)
    /\ requests[i].resp = Null
    /\ LET r == requests[i]
           v == AuthorityToggle(authVote[r.issueId], r.voteType)
           u == others + (IF v = "up" THEN 1 ELSE 0)
       IN  /\ authVote' = [authVote EXCEPT ![r.issueId] = v]
           /\ authOthers' = [authOthers EXCEPT ![r.issueId] = others]
           /\ requests' = [requests EXCEPT ![i].resp = Some([upvotes |-> u, userVote |-> v])]
    /\ lastOp' = "authorityHandle"
    /\ UNCHANGED <<authVars, formVars, lifeVars, isGuest, loadPc, issues, center, nearbyIssues, userVotes,
                   selectedIssue, detailModalIssue, dispatched, obs>>

RemoveAt(q, i) == [j \in 1..(Len(q) - 1) |-> IF j < i THEN q[j] ELSE q[j + 1]]

\* a response handler that writes the vote and leaves the tally
ReconcileVoteOnly(r, v, n) ==
    /\ userVotes' = [userVotes EXCEPT ![r.issueId] = v]
    /\ UNCHANGED <<nearbyIssues, selectedIssue>>

\* what a response handler of request r writes: vote v and tally n; the
\* setters of a view that is no longer mounted change nothing
Reconcile(r, v, n) ==
    IF mounted
    THEN /\ userVotes' = [userVotes EXCEPT ![r.issueId] = v]
         /\ nearbyIssues' = MapUpvotes(nearbyIssues, r.issueId, n)
         /\ selectedIssue' = IF r.sel THEN PatchSelected(selectedIssue, n) ELSE selectedIssue
    ELSE UNCHANGED <<userVotes, nearbyIssues, selectedIssue>>

\* a response handler has run: it has called its setters, mounted or not
HandlerRan ==
    /\ mounted' = mounted
    /\ staleWrites' = IF mounted THEN staleWrites ELSE staleWrites + 1

\* why request r fails: no answer within the timeout, or an error answer
FailureOf(r) == IF r.resp = Null THEN "voteFailed:timeout" ELSE "voteFailed"

\* the answer is dropped: the optimistic values stay
voteSucceededKeepsOptimistic(i) ==
    /\ i \in 1..Len(requests)
    /\ requests[i].resp # Null
    /\ requests' = RemoveAt(requests, i)
    /\ lastOp' = "voteSucceeded"
    /\ HandlerRan
    /\ obs' = Note(requests[i].issueId, "ok")
    /\ UNCHANGED <<authVars, formVars, isGuest, loadPc, issues, center, nearbyIssues, userVotes,
                   selectedIssue, detailModalIssue, authOthers, authVote, dispatched>>

\* handleVote after the await: the answer of request i has arrived
voteSucceeded(i) ==
    /\ i \in 1..Len(requests)
    /\ requests[i].resp # Null
    /\ LET r == requests[i]
       IN  Reconcile(r, r.resp[1].userVote, r.resp[1].upvotes)
    /\ requests' = RemoveAt(requests, i)
    /\ lastOp' = "voteSucceeded"
    /\ HandlerRan
    /\ obs' = NoteAnswer(requests[i])
    /\ UNCHANGED <<authVars, formVars, isGuest, loadPc, issues, center, detailModalIssue,
                   authOthers, authVote, dispatched>>

\* a catch that only logs the error: the optimistic values stay
voteFailedNoRevert(i) ==
    /\ i \in 1..Len(requests)
    /\ requests' = RemoveAt(requests, i)
    /\ lastOp' = FailureOf(requests[i])
    /\ HandlerRan
    /\ obs' = Note(requests[i].issueId, "fail")
    /\ UNCHANGED <<authVars, formVars, isGuest, loadPc, issues, center, nearbyIssues, userVotes,
                   selectedIssue, detailModalIssue, authOthers, authVote, dispatched>>

\* requests without a timeout: only an error answer rejects the call
voteFailedNoTimeout(i) ==
    /\ i \in 1..Len(requests)
    /\ requests[i].resp # Null
    /\ LET r == requests[i]
       IN  Reconcile(r, r.currentVote, r.upvotes)
    /\ requests' = RemoveAt(requests, i)
    /\ lastOp' = FailureOf(requests[i])
    /\ HandlerRan
    /\ obs' = Note(requests[i].issueId, "fail")
    /\ UNCHANGED <<authVars, formVars, isGuest, loadPc, issues, center, detailModalIssue,
                   authOthers, authVote, dispatched>>

\* a catch that reverts and sends the request again
voteFailedRetries(i) ==
    /\ i \in 1..Len(requests)
    /\ LET r == requests[i]
       IN  /\ Reconcile(r, r.currentVote, r.upvotes)
           /\ requests' = Append(RemoveAt(requests, i), [r EXCEPT !.resp = Null])
    /\ lastOp' = FailureOf(requests[i])
    /\ HandlerRan
    /\ obs' = Note(requests[i].issueId, "fail")
    /\ UNCHANGED <<authVars, formVars, isGuest, loadPc, issues, center, detailModalIssue,
                   authOthers, authVote, dispatched>>

\* a catch that puts the tally back and leaves the vote
voteFailedKeepsVote(i) ==
    /\ i \in 1..Len(requests)
    /\ LET r == requests[i]
       IN  Reconcile(r, userVotes[r.issueId], r.upvotes)
    /\ requests' = RemoveAt(requests, i)
    /\ lastOp' = FailureOf(requests[i])
    /\ HandlerRan
    /\ obs' = Note(requests[i].issueId, "fail")
    /\ UNCHANGED <<authVars, formVars, isGuest, loadPc, issues, center, detailModalIssue,
                   authOthers, authVote, dispatched>>

\* handleVote's catch: request i failed (no answer in time, or a rejection)
voteFailed(i) ==
    /\ i \in 1..Len(requests)
    /\ LET r == requests[i]
       IN  Reconcile(r, r.currentVote, r.upvotes)
    /\ requests' = RemoveAt(requests, i)
    /\ lastOp' = FailureOf(requests[i])
    /\ HandlerRan
    /\ obs' = Note(requests[i].issueId, "fail")
    /\ UNCHANGED <<authVars, formVars, isGuest, loadPc, issues, center, detailModalIssue,
                   authOthers, authVote, dispatched>>

\* a marker of the map is clicked: onMarkerClick={setSelectedIssue}
onMarkerClick(id) ==
    /\ ~isGuest
    /\ id \in DOMAIN issues
    /\ selectedIssue' = Some([issueId |-> id, upvotes |-> issues[id]])
    /\ lastOp' = "onMarkerClick"
    /\ UNCHANGED <<authVars, formVars, lifeVars, isGuest, loadPc, issues, center, nearbyIssues, userVotes,
                   detailModalIssue, requests, authOthers, authVote, dispatched, obs>>

\* a card of the list is clicked
handleIssueClick(id) ==
    /\ ~isGuest
    /\ id \in DOMAIN nearbyIssues
    /\ detailModalIssue' = Some([issueId |-> id, upvotes |-> nearbyIssues[id]])
    /\ lastOp' = "handleIssueClick"
    /\ UNCHANGED <<authVars, formVars, lifeVars, isGuest, loadPc, issues, center, nearbyIssues, userVotes,
                   selectedIssue, requests, authOthers, authVote, dispatched, obs>>

\* the modal's onClose
onClose ==
    /\ detailModalIssue # Null
    /\ detailModalIssue' = Null
    /\ lastOp' = "onClose"
    /\ UNCHANGED <<authVars, formVars, lifeVars, isGuest, loadPc, issues, center, nearbyIssues, userVotes,
                   selectedIssue, requests, authOthers, authVote, dispatched, obs>>

goToCurrentLocation(loc) ==
    /\ loadPc = "done"
    /\ center' = loc
    /\ nearbyIssues' = NearbyEffect(issues, loc)
    /\ lastOp' = "goToCurrentLocation"
    /\ obs' = NoteRecentred
    /\ UNCHANGED <<authVars, formVars, lifeVars, isGuest, loadPc, issues, userVotes, selectedIssue,
                   detailModalIssue, requests, authOthers, authVote, dispatched>>

\* AuthContext: the auth-state callback, continueAsGuest, signOut
setIsGuest(g) ==
    /\ isGuest # g
    /\ isGuest' = g
    /\ lastOp' = "setIsGuest"
    /\ UNCHANGED <<authVars, formVars, lifeVars, loadPc, issues, center, nearbyIssues, userVotes, selectedIssue,
                   detailModalIssue, requests, authOthers, authVote, dispatched, obs>>

\* the authority handles request i and no other user has voted meanwhile
authorityFaithful(i) ==
    /\ i \in 1..Len(requests)
    /\ authorityHandle(i, authOthers[requests[i].issueId])

\* the observer starts on an issue of the list that has no request in flight
observe(id) ==
    /\ obs = Null
    /\ id \in DOMAIN nearbyIssues
    /\ InFlight(id) = {}
    /\ obs' = Some([issueId |-> id,
                    vote |-> userVotes[id],
                    upvotes |-> nearbyIssues[id],
                    inSync |-> /\ Direction(userVotes[id]) = authVote[id]
                               /\ nearbyIssues[id] = AuthUpvotes(id),
                    events |-> << >>,
                    opts |-> << >>,
                    canon |-> Null,
                    recentred |-> FALSE])
    /\ UNCHANGED <<authVars, formVars, lifeVars, isGuest, loadPc, issues, center, nearbyIssues, userVotes,
                   selectedIssue, detailModalIssue, requests, authOthers, authVote,
                   dispatched, lastOp>>

\* the user leaves the map page: the router unmounts InteractiveMap
unmount ==
    /\ mounted
    /\ loadPc = "done"
    /\ mounted' = FALSE
    /\ lastOp' = "unmount"
    /\ UNCHANGED <<authVars, formVars, staleWrites, isGuest, loadPc, issues, center,
                   nearbyIssues, userVotes, selectedIssue, detailModalIssue,
                   requests, authOthers, authVote, dispatched, obs>>

\* the vote engine and its environment
Next ==
    \/ \E loc \in Locations : loadLocation(loc)
    \/ \E ok \in BOOLEAN : loadIssues(ok)
    \/ \E id \in Subjects, vt \in VoteTypes : handleVote(id, vt)
    \/ \E i \in 1..MaxVotes, others \in 0..MaxOthers : authorityHandle(i, others)
    \/ \E i \in 1..MaxVotes : voteSucceeded(i)
    \/ \E i \in 1..MaxVotes : voteFailed(i)
    \/ \E loc \in Locations : goToCurrentLocation(loc)
    \/ \E g \in BOOLEAN : setIsGuest(g)

Spec == Init /\ [][Next]_vars

\* the vote engine watched by the observer, no other user voting
NextObserved ==
    \/ \E loc \in Locations : loadLocation(loc)
    \/ \E ok \in BOOLEAN : loadIssues(ok)
    \/ \E id \in Subjects, vt \in VoteTypes : handleVote(id, vt)
    \/ \E i \in 1..MaxVotes : authorityFaithful(i)
    \/ \E i \in 1..MaxVotes : voteSucceeded(i)
    \/ \E i \in 1..MaxVotes : voteFailed(i)
    \/ \E loc \in Locations : goToCurrentLocation(loc)
    \/ \E id \in Subjects : observe(id)

SpecObserved == Init /\ [][NextObserved]_vars

\* the vote engine and the views of the map page, no other user voting
NextViews ==
    \/ \E loc \in Locations : loadLocation(loc)
    \/ \E ok \in BOOLEAN : loadIssues(ok)
    \/ \E id \in Subjects, vt \in VoteTypes : handleVote(id, vt)
    \/ \E i \in 1..MaxVotes : authorityFaithful(i)
    \/ \E i \in 1..MaxVotes : voteSucceeded(i)
    \/ \E i \in 1..MaxVotes : voteFailed(i)
    \/ \E loc \in Locations : goToCurrentLocation(loc)
    \/ \E id \in Subjects : onMarkerClick(id)
    \/ \E id \in Subjects : handleIssueClick(id)
    \/ onClose

SpecViews == Init /\ [][NextViews]_vars

\* the vote engine of a map view that the user may leave
NextLifecycle ==
    \/ \E loc \in Locations : loadLocation(loc)
    \/ \E ok \in BOOLEAN : loadIssues(ok)
    \/ \E id \in Subjects, vt \in VoteTypes : handleVote(id, vt)
    \/ \E i \in 1..MaxVotes : authorityFaithful(i)
    \/ \E i \in 1..MaxVotes : voteSucceeded(i)
    \/ \E i \in 1..MaxVotes : voteFailed(i)
    \/ unmount

SpecLifecycle == Init /\ [][NextLifecycle]_vars

\* the n-th vote request is in flight
Pending(n) == \E i \in 1..Len(requests) : requests[i].seq = n

\* the promise of the n-th vote request settles: handleVote resumes after the
\* await, in the success path or in the catch
settle(n) ==
    \E i \in 1..Len(requests) :
        /\ requests[i].seq = n
        /\ (voteSucceeded(i) \/ voteFailed(i))

\* the vote engine with its requests
NextFair ==
    \/ \E loc \in Locations : loadLocation(loc)
    \/ \E ok \in BOOLEAN : loadIssues(ok)
    \/ \E id \in Subjects, vt \in VoteTypes : handleVote(id, vt)
    \/ \E i \in 1..MaxVotes : authorityFaithful(i)
    \/ \E i \in 1..MaxVotes : voteSucceeded(i)
    \/ \E i \in 1..MaxVotes : voteFailed(i)

\* every request settles: axios rejects the call when no answer has come
\* within the timeout, and the event loop runs the continuation
SpecFair ==
    Init /\ [][NextFair]_vars /\ \A n \in 1..MaxVotes : WF_vars(settle(n))

\* the vote engine with a backend that holds both issues
InitTwo == InitWith(Subjects)

NextTwo ==
    \/ \E loc \in Locations : loadLocation(loc)
    \/ \E ok \in BOOLEAN : loadIssues(ok)
    \/ \E id \in Subjects, vt \in VoteTypes : handleVote(id, vt)
    \/ \E i \in 1..MaxVotes : authorityFaithful(i)
    \/ \E i \in 1..MaxVotes : voteSucceeded(i)
    \/ \E i \in 1..MaxVotes : voteFailed(i)

SpecTwo == InitTwo /\ [][NextTwo]_vars

\* both issues loaded for a signed-in user whose votes the authority does
\* not hold yet, and the markers of the map
InitTwoViews ==
    /\ InitWith(Subjects)
    /\ ~isGuest
    /\ \A s \in Subjects : authVote[s] = "null"

NextTwoViews ==
    \/ \E loc \in Locations : loadLocation(loc)
    \/ \E ok \in BOOLEAN : loadIssues(ok)
    \/ \E id \in Subjects, vt \in VoteTypes : handleVote(id, vt)
    \/ \E i \in 1..MaxVotes : authorityFaithful(i)
    \/ \E i \in 1..MaxVotes : voteSucceeded(i)
    \/ \E i \in 1..MaxVotes : voteFailed(i)
    \/ \E id \in Subjects : onMarkerClick(id)

SpecTwoViews == InitTwoViews /\ [][NextTwoViews]_vars

-----------------------------------------------------------------------------
(* UploadIssue: the photos of the issue-report form *)

\* fileService.uploadImage: the URL the file service gives for a file
uploadImage(file) == <<"url", file>>

\* a selection is never refused
TooManyPhotosNoLimit(files) == FALSE

\* photos.length + files.length > 5
TooManyPhotos(files) == Len(photos) + Len(files) > MaxPhotos

\* prev.filter((_, i) => i !== index), index counted from 1
FilterIndex(prev, index) ==
    IF index \in 1..Len(prev) THEN RemoveAt(prev, index) ELSE prev

\* the Add Photos button is enabled; the user picks files in the dialog
handlePhotoUpload(files) ==
    /\ ~isGuest
    /\ ~uploadingImages
    /\ Len(photos) < MaxPhotos
    /\ IF TooManyPhotos(files)
       THEN /\ toast' = "Too many photos"
            /\ lastOp' = "handlePhotoUpload:tooMany"
            /\ UNCHANGED <<uploadingImages, uploads>>
       ELSE /\ uploadingImages' = TRUE
            /\ uploads' = Some(files)
            /\ lastOp' = "handlePhotoUpload:uploading"
            /\ toast' = toast
    /\ UNCHANGED <<authVars, mapVars, lifeVars, photos, uploadedImageUrls>>

\* handlePhotoUpload after the await of Promise.all: all uploads done, or one failed
uploadSettled(ok) ==
    /\ uploads # Null
    /\ IF ok
       THEN /\ photos' = photos \o uploads[1]
            /\ uploadedImageUrls' = uploadedImageUrls \o
                    [k \in 1..Len(uploads[1]) |-> uploadImage(uploads[1][k])]
            /\ toast' = "Photos uploaded"
       ELSE /\ toast' = "Upload failed"
            /\ UNCHANGED <<photos, uploadedImageUrls>>
    /\ uploadingImages' = FALSE
    /\ uploads' = Null
    /\ lastOp' = "uploadSettled"
    /\ UNCHANGED <<authVars, mapVars, lifeVars>>

\* the remove button of the photo at index (counted from 1)
removePhoto(index) ==
    /\ index \in 1..Len(photos)
    /\ photos' = FilterIndex(photos, index)
    /\ uploadedImageUrls' = FilterIndex(uploadedImageUrls, index)
    /\ lastOp' = "removePhoto"
    /\ UNCHANGED <<authVars, mapVars, lifeVars, uploadingImages, uploads, toast>>

\* the form on its own: the map view is not used
InitUpload ==
    /\ InitWith({"s1"})
    /\ authOthers["s1"] = 0
    /\ authVote["s1"] = "null"

NextUpload ==
    \/ \E files \in Picks : handlePhotoUpload(files)
    \/ \E ok \in BOOLEAN : uploadSettled(ok)
    \/ \E index \in 1..MaxPhotos : removePhoto(index)

SpecUpload == InitUpload /\ [][NextUpload]_vars

-----------------------------------------------------------------------------
(* AuthContext: the user profile, the guest flag and their asynchronous steps *)

\* what the auth provider does not write
nonAuthVars == <<formVars, lifeVars, loadPc, issues, center, nearbyIssues,
                 userVotes, selectedIssue, detailModalIssue, requests,
                 authOthers, authVote, dispatched, obs>>

\* the profile the backend (or the fallback built from the Firebase user) gives
Profile == Some("profile")

\* an asynchronous auth operation may still be started
MayStart == authStarted < MaxAuthOps

\* signIn: signInWithEmailAndPassword succeeds or throws; on success Firebase
\* will notify the auth-state listener
signIn(ok) ==
    /\ MayStart
    /\ ~currentUser
    /\ authStarted' = authStarted + 1
    /\ IF ok
       THEN /\ currentUser' = TRUE
            /\ authOps' = Append(authOps, [op |-> "notify"])
       ELSE UNCHANGED <<currentUser, authOps>>
    /\ lastOp' = "signIn"
    /\ UNCHANGED <<nonAuthVars, isGuest, user, guestFlag>>

\* the auth-state listener is called: signed out, it runs to its end; signed
\* in, it runs up to the await of the profile (verifying: the page is /verify-phone)
onAuthStateChanged(i, verifying) ==
    /\ i \in 1..Len(authOps)
    /\ authOps[i].op = "notify"
    /\ IF currentUser
       THEN /\ authOps' = [authOps EXCEPT ![i] = [op |-> "profile", verifying |-> verifying]]
            /\ UNCHANGED <<isGuest, user, guestFlag>>
       ELSE /\ authOps' = RemoveAt(authOps, i)
            /\ user' = Null
            /\ isGuest' = guestFlag
            /\ guestFlag' = guestFlag
    /\ lastOp' = "onAuthStateChanged"
    /\ UNCHANGED <<nonAuthVars, currentUser, authStarted>>

\* the listener resumes with the profile (fetched, created or built locally)
profileLoaded(i) ==
    /\ i \in 1..Len(authOps)
    /\ authOps[i].op = "profile"
    /\ authOps' = RemoveAt(authOps, i)
    /\ IF ~authOps[i].verifying
       THEN /\ user' = Profile
            /\ isGuest' = FALSE
            /\ guestFlag' = FALSE
       ELSE UNCHANGED <<user, isGuest, guestFlag>>
    /\ lastOp' = "profileLoaded"
    /\ UNCHANGED <<nonAuthVars, currentUser, authStarted>>

\* signOut, up to the await of firebaseSignOut
signOut ==
    /\ MayStart
    /\ authStarted' = authStarted + 1
    /\ authOps' = Append(authOps, [op |-> "firebaseSignOut"])
    /\ lastOp' = "signOut"
    /\ UNCHANGED <<nonAuthVars, isGuest, user, currentUser, guestFlag>>

\* firebaseSignOut settles: on success Firebase will notify the listener and
\* signOut will resume; on failure signOut throws
firebaseSignOut(i, ok) ==
    /\ i \in 1..Len(authOps)
    /\ authOps[i].op = "firebaseSignOut"
    /\ IF ok
       THEN /\ currentUser' = FALSE
            /\ authOps' = Append([authOps EXCEPT ![i] = [op |-> "signOut:then"]],
                                 [op |-> "notify"])
       ELSE /\ currentUser' = currentUser
            /\ authOps' = RemoveAt(authOps, i)
    /\ lastOp' = "firebaseSignOut"
    /\ UNCHANGED <<nonAuthVars, isGuest, user, guestFlag, authStarted>>

\* signOut after the await
signOutThen(i) ==
    /\ i \in 1..Len(authOps)
    /\ authOps[i].op = "signOut:then"
    /\ authOps' = RemoveAt(authOps, i)
    /\ user' = Null
    /\ isGuest' = FALSE
    /\ guestFlag' = FALSE
    /\ lastOp' = "signOutThen"
    /\ UNCHANGED <<nonAuthVars, currentUser, authStarted>>

continueAsGuest ==
    /\ isGuest' = TRUE
    /\ user' = Null
    /\ guestFlag' = TRUE
    /\ lastOp' = "continueAsGuest"
    /\ UNCHANGED <<nonAuthVars, currentUser, authOps, authStarted>>

\* updateUser, up to the await of userService.updateProfile
updateUser ==
    /\ MayStart
    /\ user # Null
    /\ authStarted' = authStarted + 1
    /\ authOps' = Append(authOps, [op |-> "updateUser"])
    /\ lastOp' = "updateUser"
    /\ UNCHANGED <<nonAuthVars, isGuest, user, currentUser, guestFlag>>

\* updateUser after the await: the updated profile is set, or the error thrown
updateUserSettled(i, ok) ==
    /\ i \in 1..Len(authOps)
    /\ authOps[i].op = "updateUser"
    /\ authOps' = RemoveAt(authOps, i)
    /\ user' = IF ok THEN Profile ELSE user
    /\ lastOp' = "updateUserSettled"
    /\ UNCHANGED <<nonAuthVars, isGuest, currentUser, guestFlag, authStarted>>

\* verifyPhone, from the test of currentUser to the await of updateProfile
verifyPhone ==
    /\ MayStart
    /\ (user # Null \/ currentUser)
    /\ authStarted' = authStarted + 1
    /\ authOps' = Append(authOps, [op |-> "verifyPhone"])
    /\ lastOp' = "verifyPhone"
    /\ UNCHANGED <<nonAuthVars, isGuest, user, currentUser, guestFlag>>

\* verifyPhone after the await: the updated profile is set, and in the catch
\* the local profile with the phone number
verifyPhoneSettled(i) ==
    /\ i \in 1..Len(authOps)
    /\ authOps[i].op = "verifyPhone"
    /\ authOps' = RemoveAt(authOps, i)
    /\ user' = Profile
    /\ lastOp' = "verifyPhoneSettled"
    /\ UNCHANGED <<nonAuthVars, isGuest, currentUser, guestFlag, authStarted>>

\* the auth provider after construction: Firebase may hold a session, the
\* guest flag may be saved, and the listener is about to be called
InitAuth ==
    /\ InitView({"s1"})
    /\ ~isGuest
    /\ authOthers["s1"] = 0
    /\ authVote["s1"] = "null"
    /\ user = Null
    /\ currentUser \in BOOLEAN
    /\ guestFlag \in BOOLEAN
    /\ authOps = <<[op |-> "notify"]>>
    /\ authStarted = 0

NextAuth ==
    \/ \E ok \in BOOLEAN : signIn(ok)
    \/ \E i \in 1..(2 * MaxAuthOps + 1), verifying \in BOOLEAN : onAuthStateChanged(i, verifying)
    \/ \E i \in 1..(2 * MaxAuthOps + 1) : profileLoaded(i)
    \/ signOut
    \/ \E i \in 1..(2 * MaxAuthOps + 1), ok \in BOOLEAN : firebaseSignOut(i, ok)
    \/ \E i \in 1..(2 * MaxAuthOps + 1) : signOutThen(i)
    \/ continueAsGuest
    \/ updateUser
    \/ \E i \in 1..(2 * MaxAuthOps + 1), ok \in BOOLEAN : updateUserSettled(i, ok)
    \/ verifyPhone
    \/ \E i \in 1..(2 * MaxAuthOps + 1) : verifyPhoneSettled(i)

SpecAuth == InitAuth /\ [][NextAuth]_vars

-----------------------------------------------------------------------------
(* Properties *)

\* the tally and the vote the list and the vote map hold for an issue of the list
Shown(id) == [upvotes |-> nearbyIssues[id], vote |-> Direction(userVotes[id])]

\* C1: in every reachable state at most one vote request per issue is in
\* flight (a second vote on an issue whose request is pending is ignored).
C1_OneRequestPerSubject ==
    \A id \in Subjects : Cardinality(InFlight(id)) <= 1

\* C2: a vote that is accepted keeps the (vote, tally) the issue had just
\* before it, and when its request fails the vote map holds that vote again
\* and the issue's entry of the list holds that tally again.
C2_RollbackExact ==
    [][/\ \A id \in Subjects, vt \in VoteTypes :
            (handleVote(id, vt) /\ lastOp' = "handleVote:sent") =>
                LET r == requests'[Len(requests')]
                IN  r.currentVote = userVotes[id] /\ r.upvotes = nearbyIssues[id]
       /\ \A i \in 1..Len(requests) :
            voteFailed(i) =>
                LET r == requests[i]
                IN  /\ userVotes'[r.issueId] = r.currentVote
                    /\ (r.issueId \in DOMAIN nearbyIssues =>
                            nearbyIssues'[r.issueId] = r.upvotes)]_vars

\* a failure has been processed and has put back an upvote the user had taken off
C2_Witness ==
    /\ lastOp \in {"voteFailed", "voteFailed:timeout"}
    /\ requests = << >>
    /\ "s1" \in DOMAIN nearbyIssues
    /\ userVotes["s1"] = "up"
    /\ nearbyIssues["s1"] >= 1

\* C3: an accepted vote on an issue on which the user holds no vote (no
\* entry of the vote map, or null) sets the vote to the one cast; the tally
\* goes up by one for an upvote and stays for a downvote.
C3_FirstVote ==
    [][\A id \in Subjects, vt \in VoteTypes :
            (/\ ~isGuest
             /\ id \in DOMAIN nearbyIssues
             /\ Direction(userVotes[id]) = "null"
             /\ handleVote(id, vt)) =>
                /\ userVotes'[id] = vt
                /\ nearbyIssues'[id] = nearbyIssues[id] + (IF vt = "up" THEN 1 ELSE 0)]_vars

\* C4: an accepted vote opposite to the vote held switches the vote; the
\* tally goes down by one from up to down and up by one from down to up.
C4_SwitchDelta ==
    [][\A id \in Subjects, vt \in VoteTypes :
            (/\ ~isGuest
             /\ id \in DOMAIN nearbyIssues
             /\ userVotes[id] \in VoteTypes \ {vt}
             /\ handleVote(id, vt)) =>
                /\ userVotes'[id] = vt
                /\ nearbyIssues'[id] = nearbyIssues[id] + (IF vt = "up" THEN 1 ELSE -1)]_vars

\* a downvote has just been cast on an issue the user had upvoted
C4_Witness ==
    /\ lastOp = "handleVote:sent"
    /\ requests[Len(requests)].currentVote = "up"
    /\ requests[Len(requests)].voteType = "down"
    /\ userVotes[requests[Len(requests)].issueId] = "down"

\* C5: an accepted vote equal to the vote held takes the vote off; the tally
\* goes down by one when the vote was up and stays when it was down.
C5_ToggleOff ==
    [][\A id \in Subjects, vt \in VoteTypes :
            (/\ ~isGuest
             /\ id \in DOMAIN nearbyIssues
             /\ userVotes[id] = vt
             /\ handleVote(id, vt)) =>
                /\ userVotes'[id] = "null"
                /\ nearbyIssues'[id] = nearbyIssues[id] - (IF vt = "up" THEN 1 ELSE 0)]_vars

\* an upvote has just been taken off by a second click on up
C5_Witness ==
    /\ lastOp = "handleVote:sent"
    /\ requests[Len(requests)].currentVote = "up"
    /\ requests[Len(requests)].voteType = "up"
    /\ userVotes[requests[Len(requests)].issueId] = "null"

\* C6: when the answer {upvotes, userVote} of a vote request is processed,
\* the vote map holds userVote for the issue and the issue's entry of the
\* list holds upvotes, whatever they held before.
C6_SuccessOverwrites ==
    [][\A i \in 1..Len(requests) :
            voteSucceeded(i) =>
                LET r == requests[i]
                IN  /\ userVotes'[r.issueId] = r.resp[1].userVote
                    /\ (r.issueId \in DOMAIN nearbyIssues =>
                            nearbyIssues'[r.issueId] = r.resp[1].upvotes)]_vars

\* the first vote of the view has been answered with "no vote held", which
\* no optimistic update of a first vote shows
C6_Witness ==
    /\ lastOp = "voteSucceeded"
    /\ dispatched = 1
    /\ "s1" \in DOMAIN nearbyIssues
    /\ userVotes["s1"] = "null"

\* C7: a vote of a guest issues no request and changes no tally and no vote.
C7_GuestRejected ==
    [][\A id \in Subjects, vt \in VoteTypes :
            (isGuest /\ handleVote(id, vt)) =>
                UNCHANGED <<requests, dispatched, userVotes, nearbyIssues,
                            selectedIssue, detailModalIssue>>]_vars

\* a guest has just voted on a page that lists issues
C7_Witness ==
    /\ lastOp = "handleVote:guest"
    /\ isGuest
    /\ DOMAIN nearbyIssues # {}

\* the observer has seen only votes and failures on its issue
OnlyFailures ==
    /\ obs # Null
    /\ ~obs[1].recentred
    /\ obs[1].events # << >>
    /\ \A k \in 1..Len(obs[1].events) : obs[1].events[k] \in VoteTypes \cup {"fail"}

\* the issue of the observer shows what it showed when the observer started
ShowsObserved ==
    /\ obs[1].issueId \in DOMAIN nearbyIssues
    /\ Shown(obs[1].issueId) = [upvotes |-> obs[1].upvotes, vote |-> Direction(obs[1].vote)]

\* C8: when every request issued on an issue since it was idle has failed
\* and none is in flight any more, the issue shows the (tally, vote) it had
\* when the first of them was issued.
C8_FailuresRestoreBaseline ==
    (OnlyFailures /\ InFlight(obs[1].issueId) = {}) => ShowsObserved

\* the observer has seen: vote vt, its answer, vote vt again, its answer
TwiceAnswered(vt) ==
    /\ obs # Null
    /\ ~obs[1].recentred
    /\ obs[1].events = <<vt, "ok", vt, "ok">>

C10_ViewsAgree ==
    \A id \in DOMAIN nearbyIssues :
        /\ SelectedIs(id) => selectedIssue[1].upvotes = nearbyIssues[id]
        /\ (detailModalIssue # Null /\ detailModalIssue[1].issueId = id) =>
                detailModalIssue[1].upvotes = nearbyIssues[id]

C13_FailureNotified ==
    [][\A i \in 1..Len(requests) :
            voteFailed(i) => (toast' # "" /\ toast' # toast)]_vars

\* request i leaves with the answer's values after a success and with the
\* values captured before the vote after a failure or a timeout
ResolvedWith(i) ==
    LET r == requests[i]
        v == IF lastOp' = "voteSucceeded" THEN r.resp[1].userVote ELSE r.currentVote
        n == IF lastOp' = "voteSucceeded" THEN r.resp[1].upvotes ELSE r.upvotes
    IN  /\ lastOp' \in {"voteSucceeded", "voteFailed", "voteFailed:timeout"}
        /\ (r.resp = Null) => (lastOp' = "voteFailed:timeout")
        /\ userVotes'[r.issueId] = v
        /\ (r.issueId \in DOMAIN nearbyIssues) => (nearbyIssues'[r.issueId] = n)

\* C14: every vote request in flight eventually settles, a request without
\* an answer by the timeout as a failure; the request leaves with the
\* answer's values on success and with the captured values on failure.
C14_EventuallyResolves ==
    /\ \A n \in 1..MaxVotes : Pending(n) ~> ~Pending(n)
    /\ [][\A i \in 1..Len(requests) :
            (requests' = RemoveAt(requests, i)) => ResolvedWith(i)]_vars

\* a request that the authority never answered has been failed by the timeout
\* and nothing is pending any more
C14_Witness ==
    /\ lastOp = "voteFailed:timeout"
    /\ dispatched >= 1
    /\ requests = << >>
    /\ "s1" \in DOMAIN nearbyIssues

\* C15: a vote that is accepted (not a guest, issue in the list) issues
\* exactly one request, for the issue and to the endpoint of the vote cast;
\* a failure issues no request: it only takes the failed one away.
C15_OneRequestNoRetry ==
    [][/\ \A id \in Subjects, vt \in VoteTypes :
            (~isGuest /\ id \in DOMAIN nearbyIssues /\ handleVote(id, vt)) =>
                /\ Len(requests') = Len(requests) + 1
                /\ SubSeq(requests', 1, Len(requests)) = requests
                /\ requests'[Len(requests')].issueId = id
                /\ requests'[Len(requests')].voteType = vt
                /\ requests'[Len(requests')].resp = Null
       /\ \A i \in 1..Len(requests) :
            voteFailed(i) =>
                /\ requests' = RemoveAt(requests, i)
                /\ dispatched' = dispatched]_vars

\* a request has failed and none is in flight: nothing was sent again
C15_Witness ==
    /\ lastOp \in {"voteFailed", "voteFailed:timeout"}
    /\ dispatched = 1
    /\ requests = << >>

\* C16: in every reachable state the tally shown for an issue of the list
\* is not negative.
C16_TallyNotNegative ==
    \A id \in DOMAIN nearbyIssues : nearbyIssues[id] >= 0

\* C17: a vote on an issue of the list, cast while a request on another
\* issue is in flight, is applied at once: its optimistic values are shown
\* and its request is issued, the other request staying in flight.
C17_NoCrossSubjectLock ==
    [][\A x \in Subjects, y \in Subjects, vt \in VoteTypes :
            (/\ x # y
             /\ InFlight(x) # {}
             /\ ~isGuest
             /\ y \in DOMAIN nearbyIssues
             /\ handleVote(y, vt)) =>
                /\ lastOp' = "handleVote:sent"
                /\ userVotes'[y] = optimisticVote(userVotes[y], vt)
                /\ nearbyIssues'[y] = nearbyIssues[y] + optimisticDelta(userVotes[y], vt)
                /\ requests' = Append(requests, requests'[Len(requests')])
                /\ requests'[Len(requests')].issueId = y
                /\ requests'[Len(requests')].voteType = vt]_vars

\* requests on two different issues are in flight, the second just issued
C17_Witness ==
    /\ lastOp = "handleVote:sent"
    /\ Len(requests) = 2
    /\ requests[1].issueId # requests[2].issueId
    /\ userVotes[requests[2].issueId] = requests[2].voteType

\* the observer has seen on its issue: vote vt, its failure, vote vt again
RetriedAfterFailure(vt) ==
    /\ obs # Null
    /\ ~obs[1].recentred
    /\ Len(obs[1].events) >= 3
    /\ SubSeq(obs[1].events, 1, 3) = <<vt, "fail", vt>>

\* C18: when a vote fails and the user casts the same vote again, the issue
\* shows after the second vote what it showed after the first, and once the
\* second is answered it shows the answer's (tally, vote), which is what the
\* first would have left had it been answered so.
C18_RetryAfterFailure ==
    \A vt \in VoteTypes :
        RetriedAfterFailure(vt) =>
            /\ obs[1].opts[2] = obs[1].opts[1]
            /\ (obs[1].events = <<vt, "fail", vt>>) =>
                    (/\ obs[1].issueId \in DOMAIN nearbyIssues
                     /\ nearbyIssues[obs[1].issueId] = obs[1].opts[1].upvotes
                     /\ userVotes[obs[1].issueId] = obs[1].opts[1].vote)
            /\ (obs[1].events = <<vt, "fail", vt, "ok">>) =>
                    (/\ obs[1].issueId \in DOMAIN nearbyIssues
                     /\ nearbyIssues[obs[1].issueId] = obs[1].canon[1].upvotes
                     /\ userVotes[obs[1].issueId] = obs[1].canon[1].vote)

\* a downvote failed, was cast again and was answered
C18_Witness ==
    /\ RetriedAfterFailure("down")
    /\ obs[1].events = <<"down", "fail", "down", "ok">>
    /\ userVotes[obs[1].issueId] = "down"

\* the observer has seen two votes on its issue, then both answered
BothAnswered ==
    /\ obs # Null
    /\ ~obs[1].recentred
    /\ Len(obs[1].events) = 4
    /\ obs[1].events[1] \in VoteTypes
    /\ obs[1].events[2] \in VoteTypes
    /\ obs[1].events[3] = "ok"
    /\ obs[1].events[4] = "ok"

\* C20: when two requests on one issue are in flight and both are answered,
\* the issue shows, after both answers were processed in either order, the
\* (tally, vote) of the answer to the request issued last.
C20_LatestAnswerWins ==
    BothAnswered =>
        /\ obs[1].issueId \in DOMAIN nearbyIssues
        /\ Shown(obs[1].issueId) = [upvotes |-> obs[1].canon[1].upvotes,
                                    vote |-> Direction(obs[1].canon[1].vote)]

\* C19: in every reachable state of the issue-report form at most 5 photos
\* are attached, and the list of uploaded image URLs is as long as the list
\* of photos.
C19_PhotoLimit ==
    /\ Len(photos) <= MaxPhotos
    /\ Len(uploadedImageUrls) = Len(photos)

\* an upload has just filled the form up to 5 photos
C19_Witness ==
    /\ lastOp = "uploadSettled"
    /\ Len(photos) = MaxPhotos
    /\ toast = "Photos uploaded"
    /\ \E k \in 1..MaxPhotos : uploadedImageUrls[k] = uploadImage("b")

\* C21: recentring the map changes no vote and changes the tally of no issue
\* that is in the list before and after it.
C21_RecentreKeepsTallies ==
    [][\A loc \in Locations :
            goToCurrentLocation(loc) =>
                /\ userVotes' = userVotes
                /\ \A id \in DOMAIN nearbyIssues \cap DOMAIN nearbyIssues' :
                        nearbyIssues'[id] = nearbyIssues[id]]_vars

\* C23: a vote on an issue that is not in the nearby-issues list issues no
\* request and changes neither the vote map, nor the list, nor the selected
\* issue.
C23_UnloadedRejected ==
    [][\A id \in Subjects, vt \in VoteTypes :
            (id \notin DOMAIN nearbyIssues /\ handleVote(id, vt)) =>
                UNCHANGED <<requests, dispatched, userVotes, nearbyIssues,
                            selectedIssue, detailModalIssue, issues>>]_vars

\* a signed-in user has just voted on an issue that a recentring had taken
\* out of the list
C23_Witness ==
    /\ lastOp = "handleVote:unloaded"
    /\ ~isGuest
    /\ loadPc = "done"
    /\ "s1" \in DOMAIN issues
    /\ nearbyIssues = NoIssues

\* what the view holds for issue y: its vote, its tally in the list and, when
\* it is the selected issue, its tally in the selected panel
Held(y) ==
    <<userVotes[y],
      IF y \in DOMAIN nearbyIssues THEN <<nearbyIssues[y]>> ELSE << >>,
      IF SelectedIs(y) THEN <<selectedIssue[1].upvotes>> ELSE << >>>>

\* C22: a vote on issue x, and the handling of the answer or of the failure
\* of its request, change neither the vote nor the tally the view holds for
\* any other issue y.
C22_OtherSubjectsUnchanged ==
    [][/\ \A x \in Subjects, vt \in VoteTypes :
            handleVote(x, vt) => \A y \in Subjects \ {x} : Held(y)' = Held(y)
       /\ \A i \in 1..Len(requests) :
            (voteSucceeded(i) \/ voteFailed(i)) =>
                \A y \in Subjects \ {requests[i].issueId} : Held(y)' = Held(y)]_vars

\* C24: in every reachable state of the auth provider, isGuest is not true
\* while a user profile is set.
C24_GuestHasNoUser ==
    ~(isGuest /\ user # Null)

=============================================================================
